---- MODULE Spec2Model ----
(***************************************************************************)
(* A model of the dqlite request gateway (src/gateway.c): the two-slot     *)
(* request/response machine, the per-opcode handlers, the flush/flushed    *)
(* streaming loop and the WAL checkpoint hook.                             *)
(*                                                                         *)
(* The gateway is single threaded: every call of dqlite__gateway_handle    *)
(* and dqlite__gateway_flushed runs to completion, so each is one action.  *)
(* The collaborators that are not part of gateway.c (cluster callbacks,    *)
(* the SQL engine behind dqlite__db_* and dqlite__stmt_*, the allocator)   *)
(* answer nondeterministically: an action draws their answers with \E.     *)
(***************************************************************************)
EXTENDS Integers, Sequences, FiniteSets, TLC

(***************************************************************************)
(* Bounds of the model.                                                    *)
(***************************************************************************)
\* A run makes at most MaxRequests calls of dqlite__gateway_handle.
MaxRequests == 3
\* Size of the statement registry of the DB (ids 0 .. MaxStmts-1).
MaxStmts == 2
\* Largest number of rows a statement yields in one execution.
MaxRows == 4
\* Number of rows after which the response message counts as full.
BatchRows == 2
\* Request timestamps are drawn from 0 .. MaxTime.
MaxTime == 1
\* Largest number of statements in one SQL text.
MaxSqlLen == 2
\* The WAL hook is called with 0 .. MaxPages frames in the WAL.
MaxPages == 2
\* mxFrame and the read marks of the WAL index are drawn from 0 .. MaxFrame.
MaxFrame == 1
\* options->checkpoint_threshold, a configuration value.
checkpoint_threshold == 1
\* Number of reader slots of the WAL index.
DQLITE__FORMAT_WAL_NREADER == 5

(***************************************************************************)
(* Pointers: NULL is the empty tuple, a non-null pointer to x is <<x>>.    *)
(***************************************************************************)
NULL == <<>>
Ref(x) == <<x>>
Deref(p) == p[1]

(***************************************************************************)
(* Result codes (sqlite3.h, dqlite.h), kept as opaque tokens: the gateway  *)
(* only compares them with each other and with zero (SQLITE_OK).           *)
(***************************************************************************)
SQLITE_OK == "SQLITE_OK"
SQLITE_ERROR == "SQLITE_ERROR"
SQLITE_BUSY == "SQLITE_BUSY"
SQLITE_NOMEM == "SQLITE_NOMEM"
SQLITE_NOTFOUND == "SQLITE_NOTFOUND"
SQLITE_IOERR == "SQLITE_IOERR"
SQLITE_ROW == "SQLITE_ROW"
SQLITE_DONE == "SQLITE_DONE"
DQLITE_PROTO == "DQLITE_PROTO"

\* Non-zero codes a collaborator (cluster callback or SQL engine) may return.
ErrorCodes == {SQLITE_ERROR, SQLITE_BUSY}

(***************************************************************************)
(* Request types.                                                          *)
(***************************************************************************)
DQLITE_REQUEST_LEADER == "LEADER"
DQLITE_REQUEST_CLIENT == "CLIENT"
DQLITE_REQUEST_HEARTBEAT == "HEARTBEAT"
DQLITE_REQUEST_OPEN == "OPEN"
DQLITE_REQUEST_PREPARE == "PREPARE"
DQLITE_REQUEST_EXEC == "EXEC"
DQLITE_REQUEST_QUERY == "QUERY"
DQLITE_REQUEST_FINALIZE == "FINALIZE"
DQLITE_REQUEST_EXEC_SQL == "EXEC_SQL"
DQLITE_REQUEST_QUERY_SQL == "QUERY_SQL"
DQLITE_REQUEST_INTERRUPT == "INTERRUPT"
\* A type code that is no request type at all.
UnknownType == "UNKNOWN"

\* The request types dqlite__gateway_handle dispatches to a handler: one case
\* per handler function dqlite__gateway_<name> defined in gateway.c.  There is
\* no dqlite__gateway_interrupt, so INTERRUPT takes the default branch.
HandledTypes ==
    { DQLITE_REQUEST_LEADER, DQLITE_REQUEST_CLIENT, DQLITE_REQUEST_HEARTBEAT,
      DQLITE_REQUEST_OPEN, DQLITE_REQUEST_PREPARE, DQLITE_REQUEST_EXEC,
      DQLITE_REQUEST_QUERY, DQLITE_REQUEST_FINALIZE, DQLITE_REQUEST_EXEC_SQL,
      DQLITE_REQUEST_QUERY_SQL }

\* The request types that pass the cluster barrier first.
BarrierTypes ==
    { DQLITE_REQUEST_PREPARE, DQLITE_REQUEST_EXEC, DQLITE_REQUEST_QUERY,
      DQLITE_REQUEST_FINALIZE, DQLITE_REQUEST_EXEC_SQL,
      DQLITE_REQUEST_QUERY_SQL }

(***************************************************************************)
(* Response types and end-of-rows markers.                                 *)
(***************************************************************************)
DQLITE_RESPONSE_FAILURE == "FAILURE"
DQLITE_RESPONSE_SERVER == "SERVER"
DQLITE_RESPONSE_SERVERS == "SERVERS"
DQLITE_RESPONSE_WELCOME == "WELCOME"
DQLITE_RESPONSE_DB == "DB"
DQLITE_RESPONSE_STMT == "STMT"
DQLITE_RESPONSE_RESULT == "RESULT"
DQLITE_RESPONSE_ROWS == "ROWS"
DQLITE_RESPONSE_EMPTY == "EMPTY"
DQLITE_RESPONSE_ROWS_PART == "ROWS_PART"
DQLITE_RESPONSE_ROWS_DONE == "ROWS_DONE"

\* Number of request contexts of a gateway; the slots are 0 and 1.
Slots == {0, 1}

(***************************************************************************)
(* SQL text.  A text is a sequence of statements; "s" is an executable     *)
(* statement and "c" a piece that compiles to no statement (white space    *)
(* or a comment).  The empty text "" is <<>>.                              *)
(***************************************************************************)
RECURSIVE SeqsUpTo(_, _)
SeqsUpTo(S, n) ==
    IF n = 0 THEN {<<>>}
    ELSE LET shorter == SeqsUpTo(S, n - 1)
         IN  shorter \cup {Append(t, x) : t \in shorter, x \in S}

SqlTexts == SeqsUpTo({"s", "c"}, MaxSqlLen)

(***************************************************************************)
(* A response: the type tag, the payload of the union and the rows held    *)
(* by the response message.  Rendering a variant writes its tag and its    *)
(* payload over the union; the message body is written by                  *)
(* dqlite__stmt_query alone.                                               *)
(*   message: NULL, or Ref("g->error") when it holds the pointer g->error  *)
(*   id: NULL, or Ref(n) for the db id / statement id of DB and STMT       *)
(***************************************************************************)
BlankResponse ==
    [ type |-> "NONE", code |-> SQLITE_OK, message |-> NULL,
      address |-> NULL, servers |-> NULL, eof |-> "NONE", id |-> NULL,
      rows |-> <<>> ]

Render(r, type) == [BlankResponse EXCEPT !.type = type, !.rows = r.rows]


(***************************************************************************)
(* The state.                                                              *)
(*  Fields of struct dqlite__gateway:                                      *)
(*   ctxs      : slot -> [request, stmt, response]; request is NULL or the *)
(*               pointer to the request, which is named by the request's   *)
(*               type; stmt is NULL or the pointer to the statement, named *)
(*               by its id                                                 *)
(*   db        : NULL or Ref([id, stmts]), stmts : id -> NULL or Ref(stmt) *)
(*   heartbeat : timestamp of the last successful heartbeat                *)
(*   error     : the text held by g->error, [fmt, arg]                     *)
(*  The collaborators, as the gateway's calls leave them:                  *)
(*   live        : number of struct dqlite__db allocated and not freed     *)
(*   hooked      : the WAL hook is installed on the connection             *)
(*   registered  : number of xRegister calls so far                        *)
(*   barrier     : the code xBarrier returned to the last call of handle,  *)
(*                 "" when the call did not reach it                       *)
(*   yielded     : slot -> the calls of dqlite__stmt_query made for the    *)
(*                 slot's request in flight, [rc, rows] each, in order     *)
(*   prepared    : slot -> the ids of the statements dqlite__db_prepare    *)
(*                 created for the slot's request in flight, in order      *)
(*   wal         : the activation of the WAL hook (see below)              *)
(*   shm         : the locks on the reader slots of the WAL index          *)
(*  The transport, as the callbacks leave it:                              *)
(*   handled     : number of calls of dqlite__gateway_handle so far        *)
(*   flushes     : slots passed to xFlush by the last handle/flushed       *)
(*   ret         : the last call: handle or flushed, the slot it was for   *)
(*                 and, for handle, the value it returned                  *)
(*   outstanding : slot -> number of xFlush calls not yet answered by      *)
(*                 dqlite__gateway_flushed                                 *)
(*   sent        : slot -> the responses flushed for the slot's current    *)
(*                 (or last) request, in flush order                       *)
(***************************************************************************)
VARIABLES handled, ctxs, db, heartbeat, error, live, hooked, registered,
          barrier, yielded, prepared, flushes, ret, outstanding, sent,
          wal, shm

vars == <<handled, ctxs, db, heartbeat, error, live, hooked, registered,
          barrier, yielded, prepared, flushes, ret, outstanding, sent,
          wal, shm>>
gateway_vars == <<handled, ctxs, db, heartbeat, error, live, hooked,
                  registered, barrier, yielded, prepared, flushes, ret,
                  outstanding, sent>>

\* The error texts.
Err(fmt, arg) == [fmt |-> fmt, arg |-> arg]
NoError == Err("", "")

\* The part of the state the handlers work on, as one record.
G == [ ctxs |-> ctxs, db |-> db, heartbeat |-> heartbeat, error |-> error,
       live |-> live, hooked |-> hooked,
       registered |-> registered, barrier |-> barrier,
       yielded |-> yielded, prepared |-> prepared ]

\* dqlite__error_printf / dqlite__error_oom on g->error.
dqlite__error_printf(s, fmt, arg) == [s EXCEPT !.error = Err(fmt, arg)]


(***************************************************************************)
(* Rendering.                                                              *)
(***************************************************************************)
dqlite__gateway_failure(s, i, code) ==
    [s EXCEPT !.ctxs[i].response =
        [Render(@, DQLITE_RESPONSE_FAILURE) EXCEPT
            !.code = code, !.message = Ref("g->error")]]

\* o.leader: the address xLeader returns, or NULL.
dqlite__gateway_leader(s, i, req, o) ==
    IF o.leader = NULL
    THEN dqlite__gateway_failure(
             dqlite__error_printf(s, "failed to get cluster leader", ""),
             i, SQLITE_NOMEM)
    ELSE [s EXCEPT !.ctxs[i].response =
             [Render(@, DQLITE_RESPONSE_SERVER) EXCEPT
                 !.address = o.leader]]

dqlite__gateway_client(s, i, req, o) ==
    [s EXCEPT !.ctxs[i].response = Render(@, DQLITE_RESPONSE_WELCOME)]

\* A variant that renders into the response of slot 0.
HeartbeatIntoSlot0(s, i, req, o) ==
    IF o.rc # SQLITE_OK
    THEN dqlite__gateway_failure(
             dqlite__error_printf(s, "failed to get cluster servers", ""),
             0, o.rc)
    ELSE [s EXCEPT
             !.ctxs[0].response =
                 [Render(@, DQLITE_RESPONSE_SERVERS) EXCEPT
                     !.servers = Ref("servers")],
             !.heartbeat = req.timestamp]

\* o.rc: the code xServers returns; on SQLITE_OK it hands out a server list.
dqlite__gateway_heartbeat(s, i, req, o) ==
    IF o.rc # SQLITE_OK
    THEN dqlite__gateway_failure(
             dqlite__error_printf(s, "failed to get cluster servers", ""),
             i, o.rc)
    ELSE [s EXCEPT
             !.ctxs[i].response =
                 [Render(@, DQLITE_RESPONSE_SERVERS) EXCEPT
                     !.servers = Ref("servers")],
             !.heartbeat = req.timestamp]

(***************************************************************************)
(* The DB handle.  dqlite__db_init leaves an empty statement registry.     *)
(***************************************************************************)
StmtIds == 0 .. (MaxStmts - 1)
NoStmts == [id \in StmtIds |-> NULL]
NewDb == [id |-> 0, stmts |-> NoStmts]

\* A variant that keeps the DB object when dqlite__db_open fails.
OpenKeepsFailedDb(s, i, req, o) ==
    IF s.db # NULL
    THEN dqlite__gateway_failure(
             dqlite__error_printf(
                 s, "a database for this connection is already open", ""),
             i, SQLITE_BUSY)
    ELSE IF ~o.malloc
    THEN dqlite__gateway_failure(
             dqlite__error_printf(s, "unable to create database", ""),
             i, SQLITE_NOMEM)
    ELSE LET s2 == [s EXCEPT !.db = Ref(NewDb), !.live = @ + 1]
         IN  IF o.rc # SQLITE_OK
             THEN dqlite__gateway_failure(
                      dqlite__error_printf(s2, "db->error", ""), i, o.rc)
             ELSE [s2 EXCEPT
                      !.hooked = TRUE,
                      !.ctxs[i].response =
                          [Render(@, DQLITE_RESPONSE_DB) EXCEPT
                              !.id = Ref(Deref(s2.db).id)],
                      !.registered = @ + 1]

\* A variant without the test for a database that is already open.
OpenWithoutBusyTest(s, i, req, o) ==
    IF ~o.malloc
    THEN dqlite__gateway_failure(
             dqlite__error_printf(s, "unable to create database", ""),
             i, SQLITE_NOMEM)
    ELSE LET s2 == [s EXCEPT !.db = Ref(NewDb), !.live = @ + 1]
         IN  IF o.rc # SQLITE_OK
             THEN [dqlite__gateway_failure(
                       dqlite__error_printf(s2, "db->error", ""), i, o.rc)
                      EXCEPT !.db = NULL, !.live = @ - 1]
             ELSE [s2 EXCEPT
                      !.hooked = TRUE,
                      !.ctxs[i].response =
                          [Render(@, DQLITE_RESPONSE_DB) EXCEPT
                              !.id = Ref(Deref(s2.db).id)],
                      !.registered = @ + 1]

\* o.malloc: sqlite3_malloc succeeds; o.rc: the code dqlite__db_open returns.
dqlite__gateway_open(s, i, req, o) ==
    IF s.db # NULL
    THEN dqlite__gateway_failure(
             dqlite__error_printf(
                 s, "a database for this connection is already open", ""),
             i, SQLITE_BUSY)
    ELSE IF ~o.malloc
    THEN dqlite__gateway_failure(
             dqlite__error_printf(s, "unable to create database", ""),
             i, SQLITE_NOMEM)
    ELSE LET s2 == [s EXCEPT !.db = Ref(NewDb), !.live = @ + 1]
         IN  IF o.rc # SQLITE_OK
             THEN [dqlite__gateway_failure(
                       dqlite__error_printf(s2, "db->error", ""), i, o.rc)
                      EXCEPT !.db = NULL, !.live = @ - 1]
             ELSE [s2 EXCEPT
                      !.hooked = TRUE,
                      !.ctxs[i].response =
                          [Render(@, DQLITE_RESPONSE_DB) EXCEPT
                              !.id = Ref(Deref(s2.db).id)],
                      !.registered = @ + 1]

(***************************************************************************)
(* The statement registry and the SQL engine (db.c, stmt.c).               *)
(*  A statement: [id, has, rows, stepped, fail]                            *)
(*   has     : stmt->stmt is not NULL: the text compiled to a statement    *)
(*   rows    : number of rows its current execution yields                 *)
(*   stepped : number of rows the engine has yielded so far                *)
(*   fail    : after the last row the engine reports an error, not DONE    *)
(*  A finished execution (DONE or an error) leaves the statement reset.    *)
(***************************************************************************)
Min(a, b) == IF a < b THEN a ELSE b

FreeIds(d) == {id \in StmtIds : d.stmts[id] = NULL}
LowestFree(d) == CHOOSE id \in FreeIds(d) : \A j \in FreeIds(d) : id <= j

\* The text compiles to an executable statement: stmt->stmt != NULL.
Compiles(sql) == sql # <<>> /\ Head(sql) = "s"
\* stmt->tail: the text left after the first statement.
TailOf(sql) == IF sql = <<>> THEN <<>> ELSE Tail(sql)

\* The code dqlite__db_prepare returns: the engine's, or NOMEM when the
\* registry cannot grow.
PrepareRc(d, rc) == IF FreeIds(d) = {} THEN SQLITE_NOMEM ELSE rc

\* dqlite__db_prepare: on success the new statement takes the lowest free id.
dqlite__db_prepare(d, sql, rc) ==
    IF PrepareRc(d, rc) # SQLITE_OK
    THEN d
    ELSE LET id == LowestFree(d)
         IN  [d EXCEPT !.stmts[id] =
                 Ref([id |-> id, has |-> Compiles(sql), rows |-> 0,
                      stepped |-> 0, fail |-> FALSE])]

\* dqlite__db_stmt: the statement with the given id, or NULL.
dqlite__db_stmt(d, id) == IF id \in StmtIds THEN d.stmts[id] ELSE NULL

\* dqlite__db_finalize: the statement leaves the registry whatever the code
\* the engine returns; a NULL statement is left alone.
dqlite__db_finalize(d, stmt) ==
    IF stmt = NULL THEN d ELSE [d EXCEPT !.stmts[Deref(stmt).id] = NULL]

\* dqlite__stmt_bind: binding starts a new execution, whose rows the engine
\* decides (o.rows, o.fail).
dqlite__stmt_bind(d, id, o) ==
    IF o.bind # SQLITE_OK
    THEN d
    ELSE [d EXCEPT !.stmts[id] =
             Ref([Deref(@) EXCEPT !.rows = o.rows, !.stepped = 0,
                                  !.fail = o.fail])]

\* dqlite__stmt_query: step the statement and write the rows to the message
\* until it is full (rc ROW), the rows end (rc DONE) or a step fails.
\* The rows are numbered in the order the engine yields them.
StmtQueryCount(stmt) == Min(stmt.rows - stmt.stepped, BatchRows)
StmtQueryRows(stmt) ==
    [k \in 1 .. StmtQueryCount(stmt) |-> stmt.stepped + k]
StmtQueryRc(stmt) ==
    IF StmtQueryCount(stmt) = BatchRows THEN SQLITE_ROW
    ELSE IF stmt.fail THEN SQLITE_ERROR
    ELSE SQLITE_DONE
dqlite__stmt_query(d, id) ==
    LET stmt == Deref(d.stmts[id])
    IN  [d EXCEPT !.stmts[id] =
            IF StmtQueryRc(stmt) = SQLITE_ROW
            THEN Ref([stmt EXCEPT !.stepped = @ + StmtQueryCount(stmt)])
            ELSE Ref([stmt EXCEPT !.rows = 0, !.stepped = 0,
                                  !.fail = FALSE])]

(***************************************************************************)
(* The handlers behind the barrier.  s.db is read through SetDb/TheDb.     *)
(***************************************************************************)
TheDb(s) == Deref(s.db)
SetDb(s, d) == [s EXCEPT !.db = Ref(d)]

\* The statement id was created by dqlite__db_prepare for the request of
\* slot i.
Prepared(s, i, id) == [s EXCEPT !.prepared[i] = Append(@, id)]

\* DQLITE__GATEWAY_BARRIER: TRUE when the handler returns at the barrier.
BarrierFails(o) == o.barrier # SQLITE_OK
DQLITE__GATEWAY_BARRIER(s, i, o) ==
    LET s1 == [s EXCEPT !.barrier = o.barrier]
    IN  IF BarrierFails(o)
        THEN dqlite__gateway_failure(
                 dqlite__error_printf(s1, "raft barrier failed", ""),
                 i, o.barrier)
        ELSE s1

\* DQLITE__GATEWAY_LOOKUP_DB: TRUE when the lookup fails.
LookupDbFails(s, id) == s.db = NULL \/ TheDb(s).id # id
DQLITE__GATEWAY_LOOKUP_DB(s, i, id) ==
    IF LookupDbFails(s, id)
    THEN dqlite__gateway_failure(
             dqlite__error_printf(s, "no db with id %d", ToString(id)),
             i, SQLITE_NOTFOUND)
    ELSE s

\* DQLITE__GATEWAY_LOOKUP_STMT: TRUE when the lookup fails.
LookupStmtFails(s, id) == dqlite__db_stmt(TheDb(s), id) = NULL
DQLITE__GATEWAY_LOOKUP_STMT(s, i, id) ==
    IF LookupStmtFails(s, id)
    THEN dqlite__gateway_failure(
             dqlite__error_printf(s, "no stmt with id %d", ToString(id)),
             i, SQLITE_NOTFOUND)
    ELSE s

\* o.prepare: the code the engine's compile returns.
dqlite__gateway_prepare(s, i, req, o) ==
    LET s1 == DQLITE__GATEWAY_BARRIER(s, i, o)
        s2 == DQLITE__GATEWAY_LOOKUP_DB(s1, i, req.db_id)
        rc == PrepareRc(TheDb(s2), o.prepare)
        d3 == dqlite__db_prepare(TheDb(s2), req.sql, o.prepare)
    IN  IF BarrierFails(o) THEN s1
        ELSE IF LookupDbFails(s1, req.db_id) THEN s2
        ELSE IF rc # SQLITE_OK
        THEN dqlite__gateway_failure(
                 dqlite__error_printf(s2, "db->error", ""), i, rc)
        ELSE [Prepared(SetDb(s2, d3), i, LowestFree(TheDb(s2))) EXCEPT
                 !.ctxs[i].response =
                 [Render(@, DQLITE_RESPONSE_STMT) EXCEPT
                     !.id = Ref(LowestFree(TheDb(s2)))]]

\* o.bind, o.exec: the codes dqlite__stmt_bind and dqlite__stmt_exec return.
dqlite__gateway_exec(s, i, req, o) ==
    LET s1 == DQLITE__GATEWAY_BARRIER(s, i, o)
        s2 == DQLITE__GATEWAY_LOOKUP_DB(s1, i, req.db_id)
        s3 == DQLITE__GATEWAY_LOOKUP_STMT(s2, i, req.stmt_id)
        s4 == SetDb(s3,
                    dqlite__stmt_bind(TheDb(s3), req.stmt_id, o))
    IN  IF BarrierFails(o) THEN s1
        ELSE IF LookupDbFails(s1, req.db_id) THEN s2
        ELSE IF LookupStmtFails(s2, req.stmt_id) THEN s3
        ELSE IF o.bind # SQLITE_OK
        THEN dqlite__gateway_failure(
                 dqlite__error_printf(s4, "stmt->error", ""), i, o.bind)
        ELSE IF o.exec = SQLITE_OK
        THEN [s4 EXCEPT !.ctxs[i].response =
                 Render(@, DQLITE_RESPONSE_RESULT)]
        ELSE dqlite__gateway_failure(
                 dqlite__error_printf(s4, "stmt->error", ""), i, o.exec)

\* A variant that keeps the statement when its step fails.
QueryBatchKeepsFailed(s, id, i) ==
    LET stmt == Deref(TheDb(s).stmts[id])
        rc == StmtQueryRc(stmt)
        s1 == SetDb(s, dqlite__stmt_query(TheDb(s), id))
        s2 == [s1 EXCEPT !.ctxs[i].response.rows = @ \o StmtQueryRows(stmt),
                         !.yielded[i] =
                             Append(@, [rc |-> rc,
                                        rows |-> StmtQueryRows(stmt)])]
    IN  IF rc # SQLITE_ROW /\ rc # SQLITE_DONE
        THEN [dqlite__gateway_failure(
                  dqlite__error_printf(s2, "stmt->error", ""), i, rc)
                 EXCEPT !.ctxs[i].stmt = Ref(id)]
        ELSE [s2 EXCEPT
                 !.ctxs[i].response =
                     [Render(@, DQLITE_RESPONSE_ROWS) EXCEPT
                         !.eof = IF rc = SQLITE_ROW
                                 THEN DQLITE_RESPONSE_ROWS_PART
                                 ELSE DQLITE_RESPONSE_ROWS_DONE],
                 !.ctxs[i].stmt = IF rc = SQLITE_ROW THEN Ref(id) ELSE NULL]

\* A variant that does not keep the statement when more rows follow.
QueryBatchNotSuspended(s, id, i) ==
    LET stmt == Deref(TheDb(s).stmts[id])
        rc == StmtQueryRc(stmt)
        s1 == SetDb(s, dqlite__stmt_query(TheDb(s), id))
        s2 == [s1 EXCEPT !.ctxs[i].response.rows = @ \o StmtQueryRows(stmt),
                         !.yielded[i] =
                             Append(@, [rc |-> rc,
                                        rows |-> StmtQueryRows(stmt)])]
    IN  IF rc # SQLITE_ROW /\ rc # SQLITE_DONE
        THEN [dqlite__gateway_failure(
                  dqlite__error_printf(s2, "stmt->error", ""), i, rc)
                 EXCEPT !.ctxs[i].stmt = NULL]
        ELSE [s2 EXCEPT
                 !.ctxs[i].response =
                     [Render(@, DQLITE_RESPONSE_ROWS) EXCEPT
                         !.eof = IF rc = SQLITE_ROW
                                 THEN DQLITE_RESPONSE_ROWS_PART
                                 ELSE DQLITE_RESPONSE_ROWS_DONE],
                 !.ctxs[i].stmt = NULL]

\* One batch of rows of statement id into the response of slot i.
dqlite__gateway_query_batch(s, id, i) ==
    LET stmt == Deref(TheDb(s).stmts[id])
        rc == StmtQueryRc(stmt)
        s1 == SetDb(s,
                    dqlite__stmt_query(TheDb(s), id))
        s2 == [s1 EXCEPT !.ctxs[i].response.rows = @ \o StmtQueryRows(stmt),
                         !.yielded[i] =
                             Append(@, [rc |-> rc,
                                        rows |-> StmtQueryRows(stmt)])]
    IN  IF rc # SQLITE_ROW /\ rc # SQLITE_DONE
        THEN [dqlite__gateway_failure(
                  dqlite__error_printf(s2, "stmt->error", ""), i, rc)
                 EXCEPT !.ctxs[i].stmt = NULL]
        ELSE IF rc = SQLITE_ROW
        THEN [s2 EXCEPT
                 !.ctxs[i].response =
                     [Render(@, DQLITE_RESPONSE_ROWS) EXCEPT
                         !.eof = DQLITE_RESPONSE_ROWS_PART],
                 !.ctxs[i].stmt = Ref(id)]
        ELSE [s2 EXCEPT
                 !.ctxs[i].response =
                     [Render(@, DQLITE_RESPONSE_ROWS) EXCEPT
                         !.eof = DQLITE_RESPONSE_ROWS_DONE],
                 !.ctxs[i].stmt = NULL]

\* o.bind, and o.rows, o.fail: what the engine will yield for the execution.
dqlite__gateway_query(s, i, req, o) ==
    LET s1 == DQLITE__GATEWAY_BARRIER(s, i, o)
        s2 == DQLITE__GATEWAY_LOOKUP_DB(s1, i, req.db_id)
        s3 == DQLITE__GATEWAY_LOOKUP_STMT(s2, i, req.stmt_id)
        s4 == SetDb(s3,
                    dqlite__stmt_bind(TheDb(s3), req.stmt_id, o))
    IN  IF BarrierFails(o) THEN s1
        ELSE IF LookupDbFails(s1, req.db_id) THEN s2
        ELSE IF LookupStmtFails(s2, req.stmt_id) THEN s3
        ELSE IF o.bind # SQLITE_OK
        THEN dqlite__gateway_failure(
                 dqlite__error_printf(s4, "stmt->error", ""), i, o.bind)
        ELSE dqlite__gateway_query_batch(s4, req.stmt_id, i)

\* A variant that looks the DB and the statement up before the barrier.
FinalizeLookupFirst(s, i, req, o) ==
    LET s1 == DQLITE__GATEWAY_LOOKUP_DB(s, i, req.db_id)
        s2 == DQLITE__GATEWAY_LOOKUP_STMT(s1, i, req.stmt_id)
        s3 == DQLITE__GATEWAY_BARRIER(s2, i, o)
        s4 == SetDb(s3,
                    dqlite__db_finalize(
                        TheDb(s3), dqlite__db_stmt(TheDb(s3), req.stmt_id)))
    IN  IF LookupDbFails(s, req.db_id) THEN s1
        ELSE IF LookupStmtFails(s1, req.stmt_id) THEN s2
        ELSE IF BarrierFails(o) THEN s3
        ELSE IF o.finalize = SQLITE_OK
        THEN [s4 EXCEPT !.ctxs[i].response = Render(@, DQLITE_RESPONSE_EMPTY)]
        ELSE dqlite__gateway_failure(
                 dqlite__error_printf(s4, "db->error", ""), i, o.finalize)

\* o.finalize: the code dqlite__db_finalize returns.
dqlite__gateway_finalize(s, i, req, o) ==
    LET s1 == DQLITE__GATEWAY_BARRIER(s, i, o)
        s2 == DQLITE__GATEWAY_LOOKUP_DB(s1, i, req.db_id)
        s3 == DQLITE__GATEWAY_LOOKUP_STMT(s2, i, req.stmt_id)
        s4 == SetDb(s3,
                    dqlite__db_finalize(
                        TheDb(s3), dqlite__db_stmt(TheDb(s3), req.stmt_id)))
    IN  IF BarrierFails(o) THEN s1
        ELSE IF LookupDbFails(s1, req.db_id) THEN s2
        ELSE IF LookupStmtFails(s2, req.stmt_id) THEN s3
        ELSE IF o.finalize = SQLITE_OK
        THEN [s4 EXCEPT !.ctxs[i].response = Render(@, DQLITE_RESPONSE_EMPTY)]
        ELSE dqlite__gateway_failure(
                 dqlite__error_printf(s4, "db->error", ""), i, o.finalize)

\* The loop of dqlite__gateway_exec_sql from line 408 on: sql is the text
\* left, stmt the statement of the previous turn (NULL before the first),
\* k the number of the turn.  o.steps[k] is what the engine answers in turn
\* k: "ok", or the call that fails ("prepare", "bind", "exec").
RECURSIVE ExecSqlLoop(_, _, _, _, _, _)
ExecSqlLoop(s, i, o, sql, stmt, k) ==
    IF sql = <<>>
    THEN \* out: finalize the last statement, ignoring errors
         SetDb(s,
               dqlite__db_finalize(TheDb(s), stmt))
    ELSE LET ans == o.steps[k]
             prc == PrepareRc(TheDb(s),
                        IF ans = "prepare" THEN SQLITE_ERROR ELSE SQLITE_OK)
             id == LowestFree(TheDb(s))
             s2 == Prepared(
                       SetDb(s, dqlite__db_prepare(TheDb(s), sql, SQLITE_OK)),
                       i, id)
             new == TheDb(s2).stmts[id]
             brc == IF ans = "bind" THEN SQLITE_ERROR ELSE SQLITE_OK
             s3 == SetDb(s2,
                        dqlite__stmt_bind(TheDb(s2), id,
                            [bind |-> brc, rows |-> 0, fail |-> FALSE]))
         IN  IF prc # SQLITE_OK
             THEN dqlite__gateway_failure(
                      dqlite__error_printf(s, "db->error", ""), i, prc)
             ELSE IF ~Deref(new).has
             THEN SetDb(s2,
                        dqlite__db_finalize(TheDb(s2), new))
             ELSE IF brc # SQLITE_OK
             THEN dqlite__gateway_failure(
                      dqlite__error_printf(s3, "stmt->error", ""), i, brc)
             ELSE IF ans = "exec"
             THEN LET s4 == dqlite__gateway_failure(
                                dqlite__error_printf(s3, "stmt->error", ""),
                                i, SQLITE_ERROR)
                  IN  SetDb(s4,
                            dqlite__db_finalize(TheDb(s4), new))
             ELSE ExecSqlLoop(
                      [s3 EXCEPT !.ctxs[i].response =
                          Render(@, DQLITE_RESPONSE_RESULT)],
                      i, o, TailOf(sql), new, k + 1)

dqlite__gateway_exec_sql(s, i, req, o) ==
    LET s1 == DQLITE__GATEWAY_BARRIER(s, i, o)
        s2 == DQLITE__GATEWAY_LOOKUP_DB(s1, i, req.db_id)
    IN  IF BarrierFails(o) THEN s1
        ELSE IF LookupDbFails(s1, req.db_id) THEN s2
        ELSE ExecSqlLoop(s2, i, o, req.sql, NULL, 1)

dqlite__gateway_query_sql(s, i, req, o) ==
    LET s1 == DQLITE__GATEWAY_BARRIER(s, i, o)
        s2 == DQLITE__GATEWAY_LOOKUP_DB(s1, i, req.db_id)
        rc == PrepareRc(TheDb(s2), o.prepare)
        id == LowestFree(TheDb(s2))
        s3 == Prepared(
                  SetDb(s2,
                        dqlite__db_prepare(TheDb(s2), req.sql, o.prepare)),
                  i, id)
        s4 == SetDb(s3, dqlite__stmt_bind(TheDb(s3), id, o))
    IN  IF BarrierFails(o) THEN s1
        ELSE IF LookupDbFails(s1, req.db_id) THEN s2
        ELSE IF rc # SQLITE_OK
        THEN dqlite__gateway_failure(
                 dqlite__error_printf(s2, "db->error", ""), i, rc)
        ELSE IF o.bind # SQLITE_OK
        THEN dqlite__gateway_failure(
                 dqlite__error_printf(s4, "stmt->error", ""), i, o.bind)
        ELSE dqlite__gateway_query_batch(s4, id, i)

(***************************************************************************)
(* Requests.  A request: [type, timestamp, db_id, stmt_id, sql]; the       *)
(* fields a type does not carry are left at their defaults.                *)
(***************************************************************************)
DbIds == {0, 1}
ReqStmtIds == 0 .. MaxStmts
Times == 0 .. MaxTime

Req(type) ==
    [type |-> type, timestamp |-> 0, db_id |-> 0, stmt_id |-> 0, sql |-> <<>>]

\* SQL text of PREPARE and QUERY_SQL holds one statement at most.
SingleTexts == {q \in SqlTexts : Len(q) <= 1}

\* The requests of a type; a request for a db id the gateway never hands out
\* comes in one form.
Requests(type) ==
    CASE type = DQLITE_REQUEST_HEARTBEAT ->
           {[Req(type) EXCEPT !.timestamp = ts] : ts \in Times}
      [] type \in {DQLITE_REQUEST_PREPARE, DQLITE_REQUEST_QUERY_SQL} ->
           {[Req(type) EXCEPT !.sql = q] : q \in SingleTexts}
           \cup {[Req(type) EXCEPT !.db_id = 1, !.sql = <<"s">>]}
      [] type = DQLITE_REQUEST_EXEC_SQL ->
           {[Req(type) EXCEPT !.sql = q] : q \in SqlTexts}
           \cup {[Req(type) EXCEPT !.db_id = 1, !.sql = <<"s">>]}
      [] type \in {DQLITE_REQUEST_EXEC, DQLITE_REQUEST_QUERY,
                   DQLITE_REQUEST_FINALIZE} ->
           {[Req(type) EXCEPT !.stmt_id = n] : n \in ReqStmtIds}
           \cup {[Req(type) EXCEPT !.db_id = 1]}
      [] OTHER -> {Req(type)}

(***************************************************************************)
(* What the collaborators answer during one call of handle.  The answers   *)
(* after the first failing call are never asked for, so they stay at       *)
(* their defaults.                                                         *)
(***************************************************************************)
Codes == {SQLITE_OK} \cup ErrorCodes
StepAnswers == {"prepare", "bind", "exec"}

NoOracle ==
    [ leader |-> NULL, rc |-> SQLITE_OK, malloc |-> TRUE,
      barrier |-> SQLITE_OK, prepare |-> SQLITE_OK, bind |-> SQLITE_OK,
      exec |-> SQLITE_OK, finalize |-> SQLITE_OK, rows |-> 0,
      fail |-> FALSE, steps |-> [k \in 1 .. MaxSqlLen |-> "ok"] ]

BarrierOracles == {[NoOracle EXCEPT !.barrier = b] : b \in ErrorCodes}
RowOracles ==
    {[NoOracle EXCEPT !.rows = n, !.fail = f] :
        n \in 0 .. MaxRows, f \in BOOLEAN}

\* The turns of the loop of EXEC_SQL over the text: it ends with the text or
\* with the first piece that compiles to no statement.
Turns(sql) ==
    {k \in 1 .. Len(sql) : \A j \in 1 .. (k - 1) : sql[j] = "s"}
\* Turn k of EXEC_SQL fails in the given call, the turns before it succeed.
StepOracles(sql) ==
    UNION {{[NoOracle EXCEPT !.steps[k] = a] :
               a \in {x \in StepAnswers : x = "prepare" \/ sql[k] = "s"}} :
           k \in Turns(sql)}

\* The answers the handler of the request can ask for in state s.
Oracles(s, request) ==
    LET type == request.type
        nodb == s.db = NULL \/ Deref(s.db).id # request.db_id
        nostmt == nodb \/ request.stmt_id \notin StmtIds
                       \/ Deref(s.db).stmts[request.stmt_id] = NULL
        full == nodb \/ \A id \in StmtIds : Deref(s.db).stmts[id] # NULL
    IN  CASE type = DQLITE_REQUEST_LEADER ->
               {[NoOracle EXCEPT !.leader = a] :
                   a \in {NULL, Ref("10.0.0.1:9000")}}
          [] type = DQLITE_REQUEST_HEARTBEAT ->
               {[NoOracle EXCEPT !.rc = c] : c \in Codes}
          [] type = DQLITE_REQUEST_OPEN ->
               IF s.db # NULL THEN {NoOracle}
               ELSE {[NoOracle EXCEPT !.rc = c] : c \in Codes}
                    \cup {[NoOracle EXCEPT !.malloc = FALSE]}
          [] type \in BarrierTypes /\ nodb -> BarrierOracles \cup {NoOracle}
          [] type = DQLITE_REQUEST_PREPARE ->
               BarrierOracles \cup {NoOracle}
               \cup (IF full THEN {}
                     ELSE {[NoOracle EXCEPT !.prepare = SQLITE_ERROR]})
          [] type = DQLITE_REQUEST_EXEC_SQL ->
               BarrierOracles \cup {NoOracle} \cup StepOracles(request.sql)
          [] type = DQLITE_REQUEST_QUERY_SQL ->
               BarrierOracles \cup
               (IF full THEN {NoOracle}
                ELSE RowOracles \cup
                     {[NoOracle EXCEPT !.prepare = SQLITE_ERROR],
                      [NoOracle EXCEPT !.bind = SQLITE_ERROR]})
          [] type \in BarrierTypes /\ nostmt -> BarrierOracles \cup {NoOracle}
          [] type = DQLITE_REQUEST_EXEC ->
               BarrierOracles
               \cup {NoOracle, [NoOracle EXCEPT !.bind = SQLITE_ERROR],
                     [NoOracle EXCEPT !.exec = SQLITE_ERROR]}
          [] type = DQLITE_REQUEST_QUERY ->
               BarrierOracles \cup RowOracles
               \cup {[NoOracle EXCEPT !.bind = SQLITE_ERROR]}
          [] type = DQLITE_REQUEST_FINALIZE ->
               BarrierOracles
               \cup {[NoOracle EXCEPT !.finalize = c] :
                        c \in {SQLITE_OK, SQLITE_ERROR}}
          [] OTHER -> {NoOracle}

(***************************************************************************)
(* Dispatch and slot admission.                                            *)
(***************************************************************************)
\* The slot a request type is handled in.
SlotOf(type) ==
    IF type \in {DQLITE_REQUEST_HEARTBEAT, DQLITE_REQUEST_INTERRUPT}
    THEN 1 ELSE 0

\* A variant that looks at slot 0 whatever the type.
OkToAcceptSlot0Only(s, type) == s.ctxs[0].request = NULL

dqlite__gateway_ok_to_accept(s, type) ==
    IF type \in {DQLITE_REQUEST_HEARTBEAT, DQLITE_REQUEST_INTERRUPT}
    THEN s.ctxs[1].request = NULL
    ELSE s.ctxs[0].request = NULL

\* The switch of dqlite__gateway_handle over request->type.
Dispatch(s, i, req, o) ==
    LET type == req.type
    IN  CASE type = DQLITE_REQUEST_LEADER ->
               dqlite__gateway_leader(s, i, req, o)
          [] type = DQLITE_REQUEST_CLIENT ->
               dqlite__gateway_client(s, i, req, o)
          [] type = DQLITE_REQUEST_HEARTBEAT ->
               dqlite__gateway_heartbeat(s, i, req, o)
          [] type = DQLITE_REQUEST_OPEN ->
               dqlite__gateway_open(s, i, req, o)
          [] type = DQLITE_REQUEST_PREPARE ->
               dqlite__gateway_prepare(s, i, req, o)
          [] type = DQLITE_REQUEST_EXEC ->
               dqlite__gateway_exec(s, i, req, o)
          [] type = DQLITE_REQUEST_QUERY ->
               dqlite__gateway_query(s, i, req, o)
          [] type = DQLITE_REQUEST_FINALIZE ->
               dqlite__gateway_finalize(s, i, req, o)
          [] type = DQLITE_REQUEST_EXEC_SQL ->
               dqlite__gateway_exec_sql(s, i, req, o)
          [] type = DQLITE_REQUEST_QUERY_SQL ->
               dqlite__gateway_query_sql(s, i, req, o)
          [] OTHER ->
               dqlite__gateway_failure(
                   dqlite__error_printf(s, "invalid request type %d", type),
                   i, SQLITE_ERROR)

\* A variant whose default branch returns without calling xFlush.
HandleUnknownNotFlushed(s, request, o) ==
    IF ~dqlite__gateway_ok_to_accept(s, request.type)
    THEN [ s |-> dqlite__error_printf(
                     s, "concurrent request limit exceeded", ""),
           flushes |-> <<>>, rc |-> DQLITE_PROTO ]
    ELSE LET i == SlotOf(request.type)
             s1 == [s EXCEPT !.ctxs[i].request = Ref(request.type)]
         IN  [ s |-> Dispatch(s1, i, request, o),
               flushes |-> IF request.type \in HandledTypes
                           THEN <<i>> ELSE <<>>,
               rc |-> SQLITE_OK ]

\* dqlite__gateway_handle: the state it leaves, the slots it passed to
\* xFlush and the value it returns.
dqlite__gateway_handle(s, request, o) ==
    IF ~dqlite__gateway_ok_to_accept(s, request.type)
    THEN [ s |-> dqlite__error_printf(
                     s, "concurrent request limit exceeded", ""),
           flushes |-> <<>>, rc |-> DQLITE_PROTO ]
    ELSE LET i == SlotOf(request.type)
             s1 == [s EXCEPT !.ctxs[i].request = Ref(request.type)]
         IN  [ s |-> Dispatch(s1, i, request, o), flushes |-> <<i>>,
               rc |-> SQLITE_OK ]

(***************************************************************************)
(* dqlite__gateway_flushed.                                                *)
(***************************************************************************)
dqlite__gateway_response_reset(r) ==
    CASE r.type = DQLITE_RESPONSE_SERVER -> [r EXCEPT !.address = NULL]
      [] r.type = DQLITE_RESPONSE_SERVERS -> [r EXCEPT !.servers = NULL]
      [] OTHER -> r

\* dqlite__gateway_query_resume: the next batch, flushed at once.
dqlite__gateway_query_resume(s, i) ==
    [ s |-> dqlite__gateway_query_batch(s, Deref(s.ctxs[i].stmt), i),
      flushes |-> <<i>> ]

\* A variant that leaves the request in the slot.
FlushedNeverReleases(s, i) ==
    LET s1 == [s EXCEPT !.ctxs[i].response =
                  dqlite__gateway_response_reset(@)]
    IN  IF s1.ctxs[i].stmt # NULL
        THEN dqlite__gateway_query_resume(s1, i)
        ELSE [s |-> s1, flushes |-> <<>>]

\* A variant that frees the slot also when it resumes the query.
FlushedAlwaysReleases(s, i) ==
    LET s1 == [s EXCEPT !.ctxs[i].response =
                  dqlite__gateway_response_reset(@)]
    IN  IF s1.ctxs[i].stmt # NULL
        THEN LET r == dqlite__gateway_query_resume(s1, i)
             IN  [r EXCEPT !.s.ctxs[i].request = NULL]
        ELSE [ s |-> [s1 EXCEPT !.ctxs[i].request = NULL],
               flushes |-> <<>> ]

\* The slot whose response buffer is `response`; here responses are named
\* by their slot.
dqlite__gateway_flushed(s, i) ==
    LET s1 == [s EXCEPT !.ctxs[i].response =
                  dqlite__gateway_response_reset(@)]
    IN  IF s1.ctxs[i].stmt # NULL
        THEN dqlite__gateway_query_resume(s1, i)
        ELSE [ s |-> [s1 EXCEPT !.ctxs[i].request = NULL],
               flushes |-> <<>> ]

(***************************************************************************)
(* The WAL hook, dqlite__gateway_maybe_checkpoint.  The SQL engine calls   *)
(* it after a commit on the connection; transactions of other connections  *)
(* that read the same WAL take and release the shared locks of the reader  *)
(* slots meanwhile, so the hook is modelled call by call of xShmLock.      *)
(*  wal: the activation of the hook                                        *)
(*   pc          : "idle", "loop" (line 62), "unlock" (line 77),           *)
(*                 "return" (the hook has returned wal.rc)                 *)
(*   pages, mx_frame, read_marks, i : the argument and the locals          *)
(*   probes      : slot -> the code of the exclusive lock attempt on the   *)
(*                 slot during this call, "" when there was none           *)
(*   checkpoints : number of xCheckpoint calls during this call            *)
(*   rc          : the value returned                                      *)
(*  shm: the locks on the reader slots                                     *)
(*   readers     : the slots locked (shared) by reading transactions       *)
(*   exclusive   : the slots locked (exclusive) by the hook                *)
(***************************************************************************)
ReaderSlots == 0 .. (DQLITE__FORMAT_WAL_NREADER - 1)
Frames == 0 .. MaxFrame
\* The read marks of the WAL index: the mark of slot 0 is always 0.
ReadMarks == {m \in [ReaderSlots -> Frames] : m[0] = 0}

WalIdle ==
    [ pc |-> "idle", pages |-> 0, mx_frame |-> 0,
      read_marks |-> [i \in ReaderSlots |-> 0], i |-> 0,
      probes |-> [i \in ReaderSlots |-> ""], checkpoints |-> 0,
      rc |-> SQLITE_OK ]
NoLocks == [readers |-> {}, exclusive |-> {}]

\* xShmLock(file, i, 1, SQLITE_SHM_LOCK | SQLITE_SHM_EXCLUSIVE): BUSY when a
\* reader holds the slot; otherwise the lock is taken, unless the call fails
\* for another reason (ioerr).
xShmLockExclusive(l, i, ioerr) ==
    IF i \in l.readers THEN [rc |-> SQLITE_BUSY, shm |-> l]
    ELSE IF ioerr THEN [rc |-> SQLITE_IOERR, shm |-> l]
    ELSE [rc |-> SQLITE_OK, shm |-> [l EXCEPT !.exclusive = @ \cup {i}]]

\* xShmLock(file, i, 1, SQLITE_SHM_UNLOCK | SQLITE_SHM_EXCLUSIVE).
xShmUnlockExclusive(l, i) == [l EXCEPT !.exclusive = @ \ {i}]

\* Lines 41-58: the threshold test, then mxFrame and the read marks are
\* copied from the WAL index.
MaybeCheckpointEnter(w, pages, mx_frame, read_marks) ==
    IF pages < checkpoint_threshold
    THEN [w EXCEPT !.pc = "return", !.pages = pages, !.rc = SQLITE_OK]
    ELSE [w EXCEPT !.pc = "loop", !.pages = pages, !.mx_frame = mx_frame,
                   !.read_marks = read_marks, !.i = 1]

\* A variant that also probes the slots whose mark equals mxFrame.
ProbeMarkNotAbove(w, l, ioerr) ==
    IF w.mx_frame >= w.read_marks[w.i]
    THEN LET got == xShmLockExclusive(l, w.i, ioerr)
         IN  IF got.rc = SQLITE_BUSY
             THEN [ wal |-> [w EXCEPT !.probes[w.i] = got.rc,
                                      !.pc = "return", !.rc = SQLITE_OK],
                    shm |-> got.shm ]
             ELSE [ wal |-> [w EXCEPT !.probes[w.i] = got.rc,
                                      !.pc = "unlock"],
                    shm |-> got.shm ]
    ELSE [wal |-> [w EXCEPT !.i = @ + 1], shm |-> l]

\* Lines 62-73: one turn of the loop up to the lock attempt.
MaybeCheckpointProbe(w, l, ioerr) ==
    IF w.mx_frame > w.read_marks[w.i]
    THEN LET got == xShmLockExclusive(l, w.i, ioerr)
         IN  IF got.rc = SQLITE_BUSY
             THEN [ wal |-> [w EXCEPT !.probes[w.i] = got.rc,
                                      !.pc = "return", !.rc = SQLITE_OK],
                    shm |-> got.shm ]
             ELSE [ wal |-> [w EXCEPT !.probes[w.i] = got.rc,
                                      !.pc = "unlock"],
                    shm |-> got.shm ]
    ELSE [wal |-> [w EXCEPT !.i = @ + 1], shm |-> l]

\* A variant that goes to the next turn without releasing the lock.
UnlockSkipped(w, l) ==
    [ wal |-> [w EXCEPT !.pc = "loop", !.i = @ + 1],
      shm |-> l ]

\* Lines 75-79: release the lock, next turn.
MaybeCheckpointUnlock(w, l) ==
    [ wal |-> [w EXCEPT !.pc = "loop", !.i = @ + 1],
      shm |-> xShmUnlockExclusive(l, w.i) ]

\* Lines 82-88: the loop is over, xCheckpoint is called and its result ignored.
MaybeCheckpointCheckpoint(w) ==
    [w EXCEPT !.checkpoints = @ + 1, !.pc = "return", !.rc = SQLITE_OK]

\* The engine calls the hook installed by dqlite__gateway_open.
WalHookCall ==
    /\ hooked /\ db # NULL
    /\ wal.pc = "idle"
    /\ \E pages \in 0 .. MaxPages, mx_frame \in Frames,
          read_marks \in ReadMarks :
           wal' = MaybeCheckpointEnter(wal, pages, mx_frame, read_marks)
    /\ UNCHANGED <<shm, gateway_vars>>

WalHookProbe ==
    /\ wal.pc = "loop"
    /\ wal.i < DQLITE__FORMAT_WAL_NREADER
    /\ \E ioerr \in BOOLEAN :
           LET p == MaybeCheckpointProbe(wal, shm, ioerr)
           IN  wal' = p.wal /\ shm' = p.shm
    /\ UNCHANGED gateway_vars

WalHookUnlock ==
    /\ wal.pc = "unlock"
    /\ LET p == MaybeCheckpointUnlock(wal, shm)
       IN  wal' = p.wal /\ shm' = p.shm
    /\ UNCHANGED gateway_vars

WalHookCheckpoint ==
    /\ wal.pc = "loop"
    /\ wal.i >= DQLITE__FORMAT_WAL_NREADER
    /\ wal' = MaybeCheckpointCheckpoint(wal)
    /\ UNCHANGED <<shm, gateway_vars>>

\* The engine has the value the hook returned.
WalHookReturn ==
    /\ wal.pc = "return"
    /\ wal' = WalIdle
    /\ UNCHANGED <<shm, gateway_vars>>

\* A reading transaction takes the shared lock of a reader slot: it waits
\* while the slot is locked exclusively.
ReaderLock ==
    /\ \E i \in ReaderSlots :
           /\ i \notin shm.readers
           /\ i \notin shm.exclusive
           /\ shm' = [shm EXCEPT !.readers = @ \cup {i}]
    /\ UNCHANGED <<wal, gateway_vars>>

\* A reading transaction ends.
ReaderUnlock ==
    /\ \E i \in shm.readers : shm' = [shm EXCEPT !.readers = @ \ {i}]
    /\ UNCHANGED <<wal, gateway_vars>>

(***************************************************************************)
(* The state machine.                                                      *)
(***************************************************************************)

Install(s) ==
    /\ ctxs' = s.ctxs
    /\ db' = s.db
    /\ heartbeat' = s.heartbeat
    /\ error' = s.error
    /\ live' = s.live
    /\ hooked' = s.hooked
    /\ registered' = s.registered
    /\ barrier' = s.barrier
    /\ yielded' = s.yielded
    /\ prepared' = s.prepared

\* What xFlush sees of a response.
Snapshot(r) == [type |-> r.type, code |-> r.code, eof |-> r.eof, rows |-> r.rows]

\* dqlite__gateway_init.  It leaves g->heartbeat unset: any value.
Init ==
    /\ ctxs = [i \in Slots |->
                  [request |-> NULL, stmt |-> NULL, response |-> BlankResponse]]
    /\ db = NULL
    /\ handled = 0
    /\ heartbeat \in Times
    /\ error = NoError
    /\ live = 0
    /\ hooked = FALSE
    /\ registered = 0
    /\ barrier = ""
    /\ yielded = [i \in Slots |-> <<>>]
    /\ prepared = [i \in Slots |-> <<>>]
    /\ flushes = <<>>
    /\ ret = [op |-> "init", slot |-> 0, rc |-> SQLITE_OK]
    /\ outstanding = [i \in Slots |-> 0]
    /\ sent = [i \in Slots |-> <<>>]
    /\ wal = WalIdle
    /\ shm = NoLocks

\* The transport calls handle with a request of the given type.  A request
\* that is not accepted is not looked into, so one stands for all.
Handle(type) ==
    LET i == SlotOf(type)
        accepted == dqlite__gateway_ok_to_accept(G, type)
    IN  /\ handled < MaxRequests
        /\ handled' = handled + 1
        /\ \E request \in IF accepted THEN Requests(type) ELSE {Req(type)} :
          \E o \in IF accepted THEN Oracles(G, request) ELSE {NoOracle} :
            LET s0 == [G EXCEPT !.barrier = "",
                                !.yielded[i] = IF accepted THEN <<>> ELSE @,
                                !.prepared[i] = IF accepted THEN <<>> ELSE @]
                h == dqlite__gateway_handle(s0, request, o)
            IN  /\ Install(h.s)
                /\ flushes' = h.flushes
                /\ ret' = [op |-> "handle", slot |-> i, rc |-> h.rc]
                /\ outstanding' =
                       [j \in Slots |->
                           outstanding[j]
                           + Len(SelectSeq(h.flushes, LAMBDA x : x = j))]
                /\ sent' = IF h.rc = SQLITE_OK
                           THEN [sent EXCEPT ![i] =
                                    <<Snapshot(h.s.ctxs[i].response)>>]
                           ELSE sent
                /\ UNCHANGED <<wal, shm>>

HandleLeader == Handle(DQLITE_REQUEST_LEADER)
HandleClient == Handle(DQLITE_REQUEST_CLIENT)
HandleHeartbeat == Handle(DQLITE_REQUEST_HEARTBEAT)
HandleOpen == Handle(DQLITE_REQUEST_OPEN)
HandlePrepare == Handle(DQLITE_REQUEST_PREPARE)
HandleExec == Handle(DQLITE_REQUEST_EXEC)
HandleQuery == Handle(DQLITE_REQUEST_QUERY)
HandleFinalize == Handle(DQLITE_REQUEST_FINALIZE)
HandleExecSql == Handle(DQLITE_REQUEST_EXEC_SQL)
HandleQuerySql == Handle(DQLITE_REQUEST_QUERY_SQL)
HandleInterrupt == Handle(DQLITE_REQUEST_INTERRUPT)
HandleUnknown == Handle(UnknownType)

\* The transport has written the response of slot i, has reset its message
\* and calls flushed: once for every response passed to xFlush.  When the
\* slot is released the record of its request is dropped.
Flushed(i) ==
    /\ outstanding[i] > 0
    /\ LET s0 == [G EXCEPT !.barrier = "", !.ctxs[i].response.rows = <<>>]
           f == dqlite__gateway_flushed(s0, i)
           released == f.s.ctxs[i].request = NULL
       IN  /\ Install([f.s EXCEPT
                          !.yielded[i] = IF released THEN <<>> ELSE @,
                          !.prepared[i] = IF released THEN <<>> ELSE @])
           /\ flushes' = f.flushes
           /\ UNCHANGED handled
           /\ ret' = [op |-> "flushed", slot |-> i, rc |-> SQLITE_OK]
           /\ outstanding' =
                  [outstanding EXCEPT ![i] = @ - 1 + Len(f.flushes)]
           /\ sent' = [sent EXCEPT ![i] =
                          IF released THEN <<>>
                          ELSE @ \o [k \in 1 .. Len(f.flushes) |->
                                        Snapshot(f.s.ctxs[i].response)]]
           /\ UNCHANGED <<wal, shm>>

Flushed0 == Flushed(0)
Flushed1 == Flushed(1)

Next ==
    \/ HandleLeader
    \/ HandleClient
    \/ HandleHeartbeat
    \/ HandleOpen
    \/ HandlePrepare
    \/ HandleExec
    \/ HandleQuery
    \/ HandleFinalize
    \/ HandleExecSql
    \/ HandleQuerySql
    \/ HandleInterrupt
    \/ HandleUnknown
    \/ Flushed0
    \/ Flushed1

Spec == Init /\ [][Next]_vars

\* The transport calls flushed for every response it was given.
SpecFair == Spec /\ WF_vars(Flushed0) /\ WF_vars(Flushed1)

(***************************************************************************)
(* The WAL hook with the readers of the WAL, on a gateway whose OPEN has   *)
(* succeeded and been flushed.                                             *)
(***************************************************************************)
InitWal ==
    /\ handled = 1
    /\ ctxs = [i \in Slots |->
                  [request |-> NULL, stmt |-> NULL,
                   response |-> IF i = 0
                                THEN [BlankResponse EXCEPT
                                         !.type = DQLITE_RESPONSE_DB,
                                         !.id = Ref(0)]
                                ELSE BlankResponse]]
    /\ db = Ref(NewDb)
    /\ heartbeat \in Times
    /\ error = NoError
    /\ live = 1
    /\ hooked = TRUE
    /\ registered = 1
    /\ barrier = ""
    /\ yielded = [i \in Slots |-> <<>>]
    /\ prepared = [i \in Slots |-> <<>>]
    /\ flushes = <<>>
    /\ ret = [op |-> "flushed", slot |-> 0, rc |-> SQLITE_OK]
    /\ outstanding = [i \in Slots |-> 0]
    /\ sent = [i \in Slots |-> <<>>]
    /\ wal = WalIdle
    /\ shm = NoLocks

NextWal ==
    \/ WalHookCall
    \/ WalHookProbe
    \/ WalHookUnlock
    \/ WalHookCheckpoint
    \/ WalHookReturn
    \/ ReaderLock
    \/ ReaderUnlock

SpecWal == InitWal /\ [][NextWal]_vars

(***************************************************************************)
(* Properties.  A step of handle is a step that changes `handled`; after   *)
(* it ret.slot is the designated slot of the request, ret.rc the value     *)
(* returned and flushes the xFlush calls made.                             *)
(***************************************************************************)
HandleStep == handled' # handled

\* The type of the request slot i holds.
TypeIn(c, i) == Deref(c[i].request)

\* C1: a call to handle whose designated slot is free calls xFlush exactly
\* once, on the response of that slot, and returns 0 - a request of an
\* unknown type included, which is answered FAILURE with code ERROR; a call
\* to handle that returns non-zero does not call xFlush.
C1_HandleFlushesOnce ==
    [][HandleStep =>
          LET i == ret'.slot
          IN  /\ ctxs[i].request = NULL =>
                    /\ ret'.rc = SQLITE_OK
                    /\ flushes' = <<i>>
                    /\ sent'[i] = <<Snapshot(ctxs'[i].response)>>
                    /\ TypeIn(ctxs', i) = UnknownType =>
                           /\ ctxs'[i].response.type = DQLITE_RESPONSE_FAILURE
                           /\ ctxs'[i].response.code = SQLITE_ERROR
                           /\ error' = Err("invalid request type %d",
                                           UnknownType)
              /\ ret'.rc # SQLITE_OK => flushes' = <<>>]_vars

\* A request of an unknown type has been handled and flushed.
C1_Witness ==
    /\ ret.op = "handle" /\ ret.rc = SQLITE_OK /\ ret.slot = 0
    /\ ctxs[0].request = Ref(UnknownType)
    /\ flushes = <<0>>
    /\ ctxs[0].response.type = DQLITE_RESPONSE_FAILURE

\* C2: a call to handle whose designated slot holds a request returns
\* DQLITE_PROTO, does not call xFlush and leaves both slots, the DB handle
\* and the heartbeat as they were.
C2_BusySlotRejected ==
    [][(HandleStep /\ ctxs[ret'.slot].request # NULL) =>
          /\ ret'.rc = DQLITE_PROTO
          /\ flushes' = <<>>
          /\ ctxs' = ctxs
          /\ db' = db
          /\ heartbeat' = heartbeat]_vars

\* A data-plane request was rejected while slot 0 streams rows.
C2_Witness ==
    /\ ret.op = "handle" /\ ret.rc = DQLITE_PROTO /\ ret.slot = 0
    /\ ctxs[0].stmt # NULL
    /\ ctxs[0].response.eof = DQLITE_RESPONSE_ROWS_PART
\* The rows of a sequence of responses, one batch after the other.
RECURSIVE Concat(_)
Concat(ss) ==
    IF ss = <<>> THEN <<>> ELSE Head(ss).rows \o Concat(Tail(ss))

\* The first n rows in the order the engine yields them.
EngineRows(n) == [k \in 1 .. n |-> k]

QueryTypes == {DQLITE_REQUEST_QUERY, DQLITE_REQUEST_QUERY_SQL}

\* Slot 0 holds a query that has stepped its statement; sent[0] are the
\* responses flushed for it so far, yielded[0] what the steps returned.
Stepping ==
    /\ ctxs[0].request # NULL
    /\ TypeIn(ctxs, 0) \in QueryTypes
    /\ yielded[0] # <<>>

\* The query of slot 0 has flushed a first ROWS response.
Streaming ==
    /\ Stepping
    /\ sent[0] # <<>>
    /\ sent[0][1].type = DQLITE_RESPONSE_ROWS

C4_CursorImpliesRequest ==
    /\ \A i \in Slots : ctxs[i].stmt # NULL => ctxs[i].request # NULL
    /\ ctxs[0].stmt # NULL =>
           \A type \in (HandledTypes \cup {UnknownType})
                        \ {DQLITE_REQUEST_HEARTBEAT} :
               ~dqlite__gateway_ok_to_accept(G, type)
    /\ ctxs[1].stmt = NULL

\* flushed has resumed a query and more rows follow.
C4_Witness ==
    /\ ret.op = "flushed" /\ ret.slot = 0
    /\ ctxs[0].stmt # NULL
    /\ ctxs[0].request # NULL

\* A step of handle that accepted a request of the given type.
Accepted(type) ==
    /\ HandleStep
    /\ ret'.rc = SQLITE_OK
    /\ ret'.slot = SlotOf(type)
    /\ TypeIn(ctxs', SlotOf(type)) = type

\* C5: an INTERRUPT handled while slot 0 has a suspended statement is
\* answered EMPTY on slot 1 and clears the suspended statement of slot 0;
\* no ROWS response is flushed on slot 0 after it for the interrupted query.
C5_InterruptCancels ==
    [][/\ (Accepted(DQLITE_REQUEST_INTERRUPT) /\ ctxs[0].stmt # NULL) =>
              /\ ctxs'[1].response.type = DQLITE_RESPONSE_EMPTY
              /\ ctxs'[0].stmt = NULL
       /\ (ret'.op = "flushed" /\ ret'.slot = 0
              /\ ctxs[1].request = Ref(DQLITE_REQUEST_INTERRUPT)) =>
              flushes' = <<>>]_vars

\* An INTERRUPT has been handled while slot 0 has a suspended statement.
C5_Reached ==
    /\ ret.op = "handle" /\ ret.slot = 1 /\ ret.rc = SQLITE_OK
    /\ ctxs[1].request = Ref(DQLITE_REQUEST_INTERRUPT)
    /\ ctxs[0].stmt # NULL

\* The responses the query of slot 0 has still to flush: what the calls of
\* flushed for slot 0 will pass to xFlush, up to the release of the slot.
RECURSIVE RemainingBatches(_)
RemainingBatches(s) ==
    IF s.ctxs[0].stmt = NULL
    THEN <<>>
    ELSE LET f == dqlite__gateway_flushed(
                      [s EXCEPT !.ctxs[0].response.rows = <<>>], 0)
         IN  <<Snapshot(f.s.ctxs[0].response)>> \o RemainingBatches(f.s)

\* A step of handle or flushed for a HEARTBEAT request.
HeartbeatStep ==
    \/ Accepted(DQLITE_REQUEST_HEARTBEAT)
    \/ /\ ret'.op = "flushed" /\ ret'.slot = 1
       /\ ctxs[1].request = Ref(DQLITE_REQUEST_HEARTBEAT)

\* C6: handle and flushed of a HEARTBEAT leave the request, the suspended
\* statement and the response of slot 0 as they were, and the batches the
\* query of slot 0 has still to send are the same after as before; handle
\* and flushed on slot 0 leave slot 1 as it was.
C6_SlotsIndependent ==
    [][/\ HeartbeatStep =>
              /\ ctxs'[0] = ctxs[0]
              /\ sent'[0] = sent[0]
              /\ RemainingBatches(G') = RemainingBatches(G)
       /\ (ret'.op \in {"handle", "flushed"} /\ ret'.slot = 0) =>
              ctxs'[1] = ctxs[1]]_vars

\* A HEARTBEAT has been answered between two batches of a query that has
\* two more responses to send.
C6_Witness ==
    /\ ret.op = "handle" /\ ret.slot = 1 /\ ret.rc = SQLITE_OK
    /\ ctxs[1].request = Ref(DQLITE_REQUEST_HEARTBEAT)
    /\ ctxs[1].response.type = DQLITE_RESPONSE_SERVERS
    /\ ctxs[0].stmt # NULL
    /\ Len(RemainingBatches(G)) = 2

\* C7: an OPEN handled while the gateway has a DB handle is answered FAILURE
\* with code BUSY and leaves the DB, its id and its statements as they were,
\* so that db_id 0 still resolves to it; there is never more than one DB
\* handle.
C7_SecondOpenBusy ==
    /\ [][(Accepted(DQLITE_REQUEST_OPEN) /\ db # NULL) =>
              /\ ctxs'[0].response.type = DQLITE_RESPONSE_FAILURE
              /\ ctxs'[0].response.code = SQLITE_BUSY
              /\ db' = db
              /\ ~LookupDbFails(G', 0)]_vars
    /\ [](live <= 1)

\* A second OPEN has been answered BUSY on a DB that holds a statement.
C7_Witness ==
    /\ ret.op = "handle" /\ ret.slot = 0
    /\ ctxs[0].request = Ref(DQLITE_REQUEST_OPEN)
    /\ ctxs[0].response.code = SQLITE_BUSY
    /\ db # NULL
    /\ live = 1
    /\ TheDb(G).stmts[0] # NULL

\* C8: PREPARE, EXEC, QUERY, FINALIZE, EXEC_SQL and QUERY_SQL call the
\* barrier whatever the DB and the statement of the request are; when it
\* returns a code other than OK the response is FAILURE with that code, the
\* statements of the DB are as they were and slot 0 has no suspended
\* statement.
C8_BarrierFirst ==
    [][(\E type \in BarrierTypes : Accepted(type)) =>
          /\ barrier' # ""
          /\ barrier' # SQLITE_OK =>
                 /\ ctxs'[0].response.type = DQLITE_RESPONSE_FAILURE
                 /\ ctxs'[0].response.code = barrier'
                 /\ error' = Err("raft barrier failed", "")
                 /\ db' = db
                 /\ ctxs'[0].stmt = NULL
                 /\ yielded'[0] = <<>>]_vars

\* The barrier has failed for a FINALIZE on a DB that holds a statement:
\* the answer is the barrier's code and the statement is still there.
C8_Witness ==
    /\ ret.op = "handle" /\ ret.slot = 0
    /\ ctxs[0].request = Ref(DQLITE_REQUEST_FINALIZE)
    /\ barrier = SQLITE_BUSY
    /\ ctxs[0].response.code = SQLITE_BUSY
    /\ db # NULL
    /\ TheDb(G).stmts[0] # NULL

\* C9: the heartbeat of the gateway never decreases.
C9_HeartbeatMonotone == [][heartbeat' >= heartbeat]_vars

\* Two HEARTBEAT requests have been answered.
C9_Reached ==
    /\ ret.op = "handle" /\ ret.slot = 1 /\ handled >= 2
    /\ ctxs[1].response.type = DQLITE_RESPONSE_SERVERS
    /\ heartbeat = 0

\* The slots the hook has to find free: those from 1 on whose read mark is
\* below mxFrame.
TrailingSlots ==
    {i \in 1 .. (DQLITE__FORMAT_WAL_NREADER - 1) :
        wal.read_marks[i] < wal.mx_frame}

\* C10: the WAL hook returns OK, and it has called xCheckpoint, once, exactly
\* when the number of frames is at least the threshold and no lock attempt
\* on a slot from 1 on whose read mark is below mxFrame returned BUSY.
C10_CheckpointIffNoBusyReader ==
    wal.pc = "return" =>
        /\ wal.rc = SQLITE_OK
        /\ wal.checkpoints \in {0, 1}
        /\ wal.checkpoints = 1 <=>
               /\ wal.pages >= checkpoint_threshold
               /\ \A i \in TrailingSlots : wal.probes[i] # SQLITE_BUSY

\* The hook has called xCheckpoint after it found a trailing slot free,
\* while a reader holds a slot that does not trail.
C10_Witness ==
    /\ wal.pc = "return"
    /\ wal.checkpoints = 1
    /\ \E i \in TrailingSlots : wal.probes[i] = SQLITE_OK
    /\ \E j \in shm.readers : j >= 1 /\ j \notin TrailingSlots

\* The last element of a non-empty sequence.
Last(q) == q[Len(q)]

\* C11: when the handler of an EXEC_SQL request returns, the last statement
\* the request prepared has been finalized: it is no longer in the
\* statement table of the DB.
C11_ExecSqlFinalizesLast ==
    [][(Accepted(DQLITE_REQUEST_EXEC_SQL) /\ prepared'[0] # <<>>) =>
          TheDb(G').stmts[Last(prepared'[0])] = NULL]_vars

\* An EXEC_SQL request has prepared a statement and has been answered
\* FAILURE.
C11_Reached ==
    /\ ret.op = "handle" /\ ret.slot = 0
    /\ ctxs[0].request = Ref(DQLITE_REQUEST_EXEC_SQL)
    /\ prepared[0] # <<>>
    /\ ctxs[0].response.type = DQLITE_RESPONSE_FAILURE

\* The engine's answers to one statement: all calls succeed, or the named
\* call fails.
AnswerRc(ans, call) == IF ans = call THEN SQLITE_ERROR ELSE SQLITE_OK

\* The response to, and the DB after, an EXEC_SQL request of the text.
ViaExecSql(s, sql, ans) ==
    LET h == dqlite__gateway_handle(
                 s, [Req(DQLITE_REQUEST_EXEC_SQL) EXCEPT !.sql = sql],
                 [NoOracle EXCEPT !.steps[1] = ans])
    IN  [ response |-> h.s.ctxs[0].response,
          db |-> dqlite__gateway_flushed(h.s, 0).s.db ]

\* The same by PREPARE of the text, EXEC of the statement id returned and
\* FINALIZE of that id, each flushed; the response is that of EXEC, or that
\* of PREPARE when it returns no id.
ViaPrepareExecFinalize(s, sql, ans) ==
    LET p == dqlite__gateway_handle(
                 s, [Req(DQLITE_REQUEST_PREPARE) EXCEPT !.sql = sql],
                 [NoOracle EXCEPT !.prepare = AnswerRc(ans, "prepare")])
        s1 == dqlite__gateway_flushed(p.s, 0).s
        id == Deref(p.s.ctxs[0].response.id)
        e == dqlite__gateway_handle(
                 s1, [Req(DQLITE_REQUEST_EXEC) EXCEPT !.stmt_id = id],
                 [NoOracle EXCEPT !.bind = AnswerRc(ans, "bind"),
                                  !.exec = AnswerRc(ans, "exec")])
        s2 == dqlite__gateway_flushed(e.s, 0).s
        f == dqlite__gateway_handle(
                 s2, [Req(DQLITE_REQUEST_FINALIZE) EXCEPT !.stmt_id = id],
                 NoOracle)
        s3 == dqlite__gateway_flushed(f.s, 0).s
    IN  IF p.s.ctxs[0].response.type # DQLITE_RESPONSE_STMT
        THEN [response |-> p.s.ctxs[0].response, db |-> s1.db]
        ELSE [response |-> e.s.ctxs[0].response, db |-> s3.db]

\* C12: for a text of one statement and any answers of the engine, EXEC_SQL
\* gives the same response (type and code) and leaves the same statement
\* table as PREPARE, EXEC, FINALIZE.
C12_ExecSqlAsPrepareExecFinalize ==
    (db # NULL /\ ctxs[0].request = NULL) =>
        \A ans \in {"ok"} \cup StepAnswers :
            LET a == ViaExecSql(G, <<"s">>, ans)
                b == ViaPrepareExecFinalize(G, <<"s">>, ans)
            IN  /\ a.response.type = b.response.type
                /\ a.response.code = b.response.code
                /\ a.db = b.db

\* The two ways agree when every call succeeds, on a DB that holds a
\* statement already.
C12_Reached ==
    /\ db # NULL /\ ctxs[0].request = NULL
    /\ TheDb(G).stmts[0] # NULL
    /\ ViaExecSql(G, <<"s">>, "ok").response.type = DQLITE_RESPONSE_RESULT
    /\ ViaExecSql(G, <<"s">>, "ok").db
           = ViaPrepareExecFinalize(G, <<"s">>, "ok").db

\* The response variant listed for a request type.
VariantOf(type) ==
    CASE type = DQLITE_REQUEST_LEADER -> DQLITE_RESPONSE_SERVER
      [] type = DQLITE_REQUEST_CLIENT -> DQLITE_RESPONSE_WELCOME
      [] type = DQLITE_REQUEST_HEARTBEAT -> DQLITE_RESPONSE_SERVERS
      [] type = DQLITE_REQUEST_OPEN -> DQLITE_RESPONSE_DB
      [] type = DQLITE_REQUEST_PREPARE -> DQLITE_RESPONSE_STMT
      [] type = DQLITE_REQUEST_EXEC -> DQLITE_RESPONSE_RESULT
      [] type = DQLITE_REQUEST_QUERY -> DQLITE_RESPONSE_ROWS
      [] type = DQLITE_REQUEST_FINALIZE -> DQLITE_RESPONSE_EMPTY
      [] type = DQLITE_REQUEST_EXEC_SQL -> DQLITE_RESPONSE_RESULT
      [] type = DQLITE_REQUEST_QUERY_SQL -> DQLITE_RESPONSE_ROWS
      [] type = DQLITE_REQUEST_INTERRUPT -> DQLITE_RESPONSE_EMPTY
      [] OTHER -> DQLITE_RESPONSE_FAILURE

\* C13: the response flushed for an accepted request is of the variant
\* listed for its type, or FAILURE.
C13_OwnResponse ==
    [][\A type \in HandledTypes \cup {DQLITE_REQUEST_INTERRUPT, UnknownType} :
          Accepted(type) =>
              ctxs'[SlotOf(type)].response.type
                  \in {VariantOf(type), DQLITE_RESPONSE_FAILURE}]_vars

\* An EXEC_SQL request has been answered on an open DB without preparing
\* any statement.
C13_Reached ==
    /\ ret.op = "handle" /\ ret.slot = 0
    /\ ctxs[0].request = Ref(DQLITE_REQUEST_EXEC_SQL)
    /\ barrier = SQLITE_OK
    /\ db # NULL
    /\ prepared[0] = <<>>
    /\ ctxs[0].response.type # DQLITE_RESPONSE_FAILURE

\* Slot i has a FAILURE response that xFlush was given and flushed has not
\* been called for; its message is the text of g->error.
PendingFailure(i) ==
    /\ outstanding[i] > 0
    /\ ctxs[i].response.type = DQLITE_RESPONSE_FAILURE
    /\ ctxs[i].response.message = Ref("g->error")

\* C14: no call of handle changes the code or the message text of a FAILURE
\* response that is waiting for its flushed.
C14_PendingFailureStable ==
    [][\A i \in Slots :
          (PendingFailure(i) /\ HandleStep) =>
              /\ ctxs'[i].response = ctxs[i].response
              /\ error' = error]_vars

\* A call of handle was rejected while slot 0 has a FAILURE response
\* waiting for its flushed.
C14_Reached ==
    /\ PendingFailure(0)
    /\ ret.op = "handle" /\ ret.rc = DQLITE_PROTO /\ ret.slot = 0
    /\ error = Err("concurrent request limit exceeded", "")

\* Slot i is free: no request and no suspended statement.
Free(i) == ctxs[i].request = NULL /\ ctxs[i].stmt = NULL

\* C15: when the transport calls flushed for every response, every request
\* in a slot leaves the slot free in the end, that is, each slot is free
\* again after any point of the run; the request of a slot is cleared only
\* by flushed for that slot, called when the slot has no suspended
\* statement; and xFlush is never called for a slot that has a response
\* waiting for its flushed.
C15_SlotsDrain ==
    /\ []<>Free(0)
    /\ []<>Free(1)
    /\ [][\A i \in Slots :
             (ctxs[i].request # NULL /\ ctxs'[i].request = NULL) =>
                 /\ ret'.op = "flushed" /\ ret'.slot = i
                 /\ ctxs[i].stmt = NULL]_vars
    /\ [](\A i \in Slots : outstanding[i] <= 1)

\* Both slots hold a request whose response waits for flushed, slot 0 with
\* a suspended statement.
C15_Witness ==
    /\ ctxs[0].stmt # NULL /\ outstanding[0] = 1
    /\ ctxs[1].request # NULL /\ outstanding[1] = 1

\* The last step of the statement of the query in slot 0 returned a code
\* other than ROW and DONE.
StepFailed ==
    /\ Stepping
    /\ Last(yielded[0]).rc \notin {SQLITE_ROW, SQLITE_DONE}

\* C16: when a step of a streaming query fails, in handle or in flushed,
\* the response flushed for that batch is FAILURE with the code of the
\* step and the slot has no suspended statement; nothing more is flushed
\* for the request, and the next flushed for slot 0 frees the slot.
C16_StepFailureEndsQuery ==
    /\ [](StepFailed =>
             /\ Len(sent[0]) = Len(yielded[0])
             /\ Last(sent[0]).type = DQLITE_RESPONSE_FAILURE
             /\ Last(sent[0]).code = Last(yielded[0]).rc
             /\ ctxs[0].response.type = DQLITE_RESPONSE_FAILURE
             /\ ctxs[0].response.code = Last(yielded[0]).rc
             /\ ctxs[0].stmt = NULL
             /\ outstanding[0] = 1)
    /\ [][StepFailed =>
             IF ret'.op = "flushed" /\ ret'.slot = 0
             THEN flushes' = <<>> /\ Free(0)'
             ELSE /\ sent'[0] = sent[0]
                  /\ outstanding'[0] = outstanding[0]
                  /\ ctxs'[0] = ctxs[0]]_vars

\* The step of the second batch of a query, made by flushed, has failed.
C16_Witness ==
    /\ StepFailed
    /\ ret.op = "flushed" /\ ret.slot = 0
    /\ Len(yielded[0]) = 2
    /\ flushes = <<0>>

\* The text the test for an open database leaves in g->error.
AlreadyOpen == Err("a database for this connection is already open", "")

\* The answers of the allocator and of dqlite__db_open that make OPEN fail.
OpenFailures ==
    {o \in Oracles(G, Req(DQLITE_REQUEST_OPEN)) :
        ~o.malloc \/ o.rc # SQLITE_OK}

\* C17: an OPEN that fails - no memory for the DB object, or a non-zero
\* code from the open of the connection - is answered FAILURE with that
\* code (NOMEM for the allocation); after it the gateway holds no DB, no
\* DB object is left allocated, the WAL hook is not installed and
\* xRegister has not been called, so the already-open test does not answer
\* a later OPEN.  xRegister is called once by each OPEN answered DB and by
\* no other step.
C17_FailedOpenLeavesNothing ==
    /\ [](db = NULL =>
             \A o \in OpenFailures :
                 LET s == dqlite__gateway_open(G, 0, Req(DQLITE_REQUEST_OPEN), o)
                     r == s.ctxs[0].response
                 IN  /\ r.type = DQLITE_RESPONSE_FAILURE
                     /\ r.code = IF o.malloc THEN o.rc ELSE SQLITE_NOMEM
                     /\ s.db = NULL
                     /\ s.live = live
                     /\ s.hooked = hooked
                     /\ s.registered = registered)
    /\ [][/\ (Accepted(DQLITE_REQUEST_OPEN)
                /\ ctxs'[0].response.type = DQLITE_RESPONSE_FAILURE) =>
               /\ db' = db
               /\ live' = live
               /\ hooked' = hooked
               /\ registered' = registered
               /\ (db = NULL => error' # AlreadyOpen)
          /\ registered' # registered =>
               /\ Accepted(DQLITE_REQUEST_OPEN)
               /\ ctxs'[0].response.type = DQLITE_RESPONSE_DB
               /\ registered' = registered + 1
          /\ (Accepted(DQLITE_REQUEST_OPEN)
                /\ ctxs'[0].response.type = DQLITE_RESPONSE_DB) =>
               /\ db = NULL /\ db' # NULL
               /\ hooked'
               /\ registered' = registered + 1]_vars
    /\ [](IF db = NULL
          THEN live = 0 /\ ~hooked /\ registered = 0
          ELSE live = 1 /\ hooked /\ registered = 1)

\* An OPEN answered DB after an OPEN that failed in dqlite__db_open.
C17_Witness ==
    /\ ret.op = "handle" /\ ret.rc = SQLITE_OK
    /\ ctxs[0].request = Ref(DQLITE_REQUEST_OPEN)
    /\ ctxs[0].response.type = DQLITE_RESPONSE_DB
    /\ error = Err("db->error", "")
    /\ registered = 1

\* The step on which the hook calls xCheckpoint.
CheckpointStep == wal'.checkpoints = wal.checkpoints + 1

\* C18: with readers that take and release the locks of their reader slots
\* between the steps of the WAL hook, xCheckpoint is not called while a
\* reader holds the lock of a slot from 1 on whose read mark is below
\* mxFrame.
C18_NoCheckpointUnderReader ==
    [][CheckpointStep => \A i \in TrailingSlots : i \notin shm.readers]_vars

\* The hook has found every trailing slot free and is about to call
\* xCheckpoint, and a reader has since taken a slot the hook had probed.
C18_Reached ==
    /\ wal.pc = "loop"
    /\ wal.i >= DQLITE__FORMAT_WAL_NREADER
    /\ \E i \in TrailingSlots :
           wal.probes[i] = SQLITE_OK /\ i \in shm.readers

\* C19: on every path through the WAL hook - below the threshold, postponed
\* on a BUSY slot, or xCheckpoint called - the hook holds no exclusive lock
\* of a reader slot when it returns and none when it calls xCheckpoint; it
\* holds one only between a successful lock attempt and the release that
\* follows, on the slot of that turn, and its steps change no lock of a
\* reader.
C19_HookReleasesLocks ==
    /\ [](wal.pc \in {"idle", "return"} => shm.exclusive = {})
    /\ [](shm.exclusive # {} =>
             /\ wal.pc = "unlock"
             /\ wal.probes[wal.i] = SQLITE_OK
             /\ shm.exclusive = {wal.i})
    /\ [][/\ CheckpointStep => (shm.exclusive = {} /\ shm' = shm)
          /\ wal' # wal => shm'.readers = shm.readers]_vars

\* The hook took and released the lock of slot 1, then found slot 2 BUSY
\* and returned without calling xCheckpoint.
C19_Witness ==
    /\ wal.pc = "return"
    /\ wal.checkpoints = 0
    /\ wal.probes[1] = SQLITE_OK
    /\ wal.probes[2] = SQLITE_BUSY
    /\ shm.exclusive = {}

\* The requests that prepare their statements themselves.
SqlTypes == {DQLITE_REQUEST_EXEC_SQL, DQLITE_REQUEST_QUERY_SQL}

\* flushed releases slot 0, which holds a request of one of the types.
Releases(types) ==
    /\ ret'.op = "flushed" /\ ret'.slot = 0
    /\ ctxs[0].request # NULL
    /\ TypeIn(ctxs, 0) \in types
    /\ ctxs'[0].request = NULL

\* C20: when the slot of an EXEC_SQL or QUERY_SQL request is released, no
\* statement the request prepared is left in the statement table of the
\* DB: the table holds the statements it held before the request.
C20_SqlStatementsGone ==
    [][Releases(SqlTypes) =>
          \A k \in 1 .. Len(prepared[0]) :
              TheDb(G').stmts[prepared[0][k]] = NULL]_vars

\* A QUERY_SQL request has sent its last batch, and the statement it
\* prepared is in the statement table.
C20_Reached ==
    /\ ctxs[0].request = Ref(DQLITE_REQUEST_QUERY_SQL)
    /\ ctxs[0].stmt = NULL
    /\ sent[0] # <<>>
    /\ Last(sent[0]).type = DQLITE_RESPONSE_ROWS
    /\ Last(sent[0]).eof = DQLITE_RESPONSE_ROWS_DONE
    /\ prepared[0] # <<>>
    /\ TheDb(G).stmts[prepared[0][1]] # NULL

\* The assertions of dqlite__gateway_response_reset on the response it is
\* given: the owned pointer of a SERVER or SERVERS response is not NULL.
ResetAssertions(r) ==
    /\ r.type = DQLITE_RESPONSE_SERVER => r.address # NULL
    /\ r.type = DQLITE_RESPONSE_SERVERS => r.servers # NULL

\* C21: when the transport calls flushed once for each response passed to
\* xFlush, the assertions reached in flushed hold: every response that
\* waits for its flushed is the response of a slot, and if it is of type
\* SERVER its address is not NULL and if it is of type SERVERS its server
\* list is not NULL, so that no owned string is released twice.
C21_ResetAssertionsHold ==
    \A i \in Slots :
        outstanding[i] > 0 => ResetAssertions(ctxs[i].response)

\* The response of an EXEC_SQL request waits for its flushed, and it is the
\* SERVER response of an earlier LEADER request, its address released.
C21_Reached ==
    /\ outstanding[0] = 1
    /\ ctxs[0].request = Ref(DQLITE_REQUEST_EXEC_SQL)
    /\ ctxs[0].response.type = DQLITE_RESPONSE_SERVER
    /\ ctxs[0].response.address = NULL

====
